---- MODULE Spec2Model ----
(***************************************************************************)
(* Pacing transform (src/lib/ai/transform.ts, typedTextTransform) and the  *)
(* error-aware stream relay around it.  Two relay sessions run             *)
(* interleaved, each with its own transform instance.                      *)
(*                                                                         *)
(* Time is in milliseconds.  rt is the elapsed real time, the time base of *)
(* setTimeout; Date.now() is the wall clock, Epoch + rt + off, which the   *)
(* host may step forwards or backwards at any moment.                      *)
(*                                                                         *)
(* The module also models the provider-configuration queries and route     *)
(* (src/lib/providers.ts), the chat settings route and the MCP filesystem  *)
(* tool server (src/mcp/filesystem/index.js), each under a specification   *)
(* of its own.                                                             *)
(***************************************************************************)
EXTENDS Integers, Sequences, FiniteSets, TLC

\* transform.ts:7
MIN_DELAY_MS == 20

\* Bounds of the model.
MaxLen == 2
MaxTime == 30
TickMs == 10
Skew == 15

Sessions == {1, 2}
Primary == {1}

\* Date.now() counts from 1970: every reading is far above MIN_DELAY_MS.
Epoch == 5 * MIN_DELAY_MS

\* Chunk kinds (TextStreamPart.type): one text kind, one non-text kind sent
\* by the upstream, and the error part the relay frames for a mid-stream
\* failure.
UpstreamKinds == {"text", "tool-call"}

\* Classified HTTP statuses of a failure before the first flush.
ErrorStatus == {400, 401, 402, 429, 502, 503}

Offsets == {0, Skew}

NoChunk == [kind |-> "none", arr |-> 0, delay |-> 0, wakeAt |-> 0]

VARIABLES
    rt,             \* elapsed real time
    off,            \* wall-clock offset (clock adjustments)
    pc,             \* per session: "idle", "waiting", "flushed", "errored"
    lastChunkTime,  \* per session: the closure variable of transform.ts:6
    pending,        \* per session: the chunk suspended in its delay
    input,          \* per session: kinds fed to transform(), in order
    out,            \* per session: chunks enqueued downstream
    readable,       \* per session: state of the readable side
    closeRequested, \* per session: upstream ended, close queued on the writable side
    completions,    \* per session: completion signals delivered downstream
    relayState,     \* per session: NOT_STARTED, STREAMING, ENDED, ERRORED, ABORTED
    httpStatus,     \* per session: 0 while no status line was committed
    jsonBodies,     \* per session: JSON error bodies sent
    failedIn,       \* per session: relay state when the upstream failed
    upstreamOpen,   \* per session: upstream subscription held
    sinkOpen        \* per session: downstream sink held

clockVars == <<rt, off>>
transformVars == <<pc, lastChunkTime, pending, input, out, readable,
                   closeRequested, completions>>
relayVars == <<relayState, httpStatus, jsonBodies, failedIn, upstreamOpen,
               sinkOpen>>

VARIABLES
    providerConfig, \* the ProviderConfig table: a set of rows
    nextId,         \* ids handed out by crypto.randomUUID() so far
    reply,          \* the outcome of the last query or request
    chat,           \* the Chat table: a set of rows
    files,          \* the file system: path -> content, NoFile when absent
    lastReadFile,   \* fileReadTracker.lastReadFile
    fsPc,           \* where the update_file handler stands
    call,           \* the locals of an update_file call that is writing
    page,           \* what the chat page last gave the browser
    form            \* the state of the chat settings modal

providerVars == <<providerConfig, nextId>>
fsVars == <<files, lastReadFile, fsPc, call>>
uiVars == <<page, form>>
appVars == <<providerConfig, nextId, reply, chat, fsVars, uiVars>>
streamVars == <<clockVars, transformVars, relayVars>>

vars == <<rt, off, pc, lastChunkTime, pending, input, out, readable,
          closeRequested, completions, relayState, httpStatus, jsonBodies,
          failedIn, upstreamOpen, sinkOpen, providerConfig, nextId, reply, chat,
          files, lastReadFile, fsPc, call, page, form>>

\* Date.now()
DateNow == Epoch + rt + off

Live == {"NOT_STARTED", "STREAMING"}
Terminal == {"ENDED", "ERRORED", "ABORTED"}

\* No query or request was made yet.
NoReply == [op |-> "none"]

\* A column without a value.
Null == "null"

\* The eight optional text columns of a chat's settings.
SettingFields == {"systemInstruction", "temperature", "maxTokens", "topP",
                  "topK", "presencePenalty", "frequencyPenalty", "seed"}

\* A chat as the chat route creates it: no settings yet.
NewChat(id, userId, visibility) ==
    [id |-> id, userId |-> userId, visibility |-> visibility,
     model |-> Null, fields |-> [f \in SettingFields |-> Null]]

InitChats == {NewChat("c1", "u1", "private"), NewChat("c2", "u2", "public")}

\* Paths the tools are called with, and their backups.
Paths == {"a", "b"}

Bak(file_path) == file_path \o ".bak"

AllPaths == Paths \cup {Bak(p) : p \in Paths}

\* A file's content is the sequence of its lines, content.split("\n"): the
\* empty string is <<"">>.  No content, the empty sequence, is an absent file.
NoFile == <<>>

NoPath == "null"

NoCall == [file_path |-> NoPath]

\* File "a" exists with one line, nothing has been read.
InitFs ==
    /\ files = [p \in AllPaths |-> IF p = "a" THEN <<"a">> ELSE NoFile]
    /\ lastReadFile = NoPath
    /\ fsPc = "idle"
    /\ call = NoCall

\* auth() found no session user.
NoUser == "nobody"

\* A value that is not there: a query that found no row, a missing field.
Undefined == "undefined"

\* A settings object without a value, and the modal before it is opened.
NoSettings == [model |-> Undefined, fields |-> [f \in SettingFields |-> Undefined]]

NoPage == [outcome |-> "none", id |-> "none", visitor |-> NoUser,
           isReadonly |-> FALSE, initialSettings |-> NoSettings]

ClosedForm == [open |-> FALSE, model |-> Undefined,
               fields |-> [f \in SettingFields |-> Undefined]]

\* No page has been loaded.
InitUi ==
    /\ page = NoPage
    /\ form = ClosedForm

InitApp ==
    /\ providerConfig = {}
    /\ nextId = 0
    /\ reply = NoReply
    /\ chat = InitChats
    /\ InitFs
    /\ InitUi

Init ==
    /\ InitApp
    /\ rt = 0
    /\ off = 0
    /\ pc = [s \in Sessions |-> "idle"]
    /\ lastChunkTime = [s \in Sessions |-> 0]
    /\ pending = [s \in Sessions |-> NoChunk]
    /\ input = [s \in Sessions |-> <<>>]
    /\ out = [s \in Sessions |-> <<>>]
    /\ readable = [s \in Sessions |-> "readable"]
    /\ closeRequested = [s \in Sessions |-> FALSE]
    /\ completions = [s \in Sessions |-> 0]
    /\ relayState = [s \in Sessions |-> "NOT_STARTED"]
    /\ httpStatus = [s \in Sessions |-> 0]
    /\ jsonBodies = [s \in Sessions |-> 0]
    /\ failedIn = [s \in Sessions |-> "none"]
    /\ upstreamOpen = [s \in Sessions |-> TRUE]
    /\ sinkOpen = [s \in Sessions |-> TRUE]

-----------------------------------------------------------------------------
(* The clock *)

\* Real time passes.  A timer never fires early; it may fire late.
Tick ==
    /\ rt + TickMs <= MaxTime
    /\ rt' = rt + TickMs
    /\ UNCHANGED <<off, transformVars, relayVars, appVars>>

\* The wall clock behind Date.now() is stepped (NTP, operator).
ClockAdjust ==
    /\ \E o \in Offsets \ {off} : off' = o
    /\ UNCHANGED <<rt, transformVars, relayVars, appVars>>

-----------------------------------------------------------------------------
(* typedTextTransform *)

\* Variant: the delay is applied to chunks of every kind.
ShouldDelayAnyKind(kind, timeSinceLastChunk) ==
    timeSinceLastChunk < MIN_DELAY_MS

\* transform.ts:15
ShouldDelay(kind, timeSinceLastChunk) ==
    kind = "text" /\ timeSinceLastChunk < MIN_DELAY_MS

\* transform.ts:16
Delay(timeSinceLastChunk) == MIN_DELAY_MS - timeSinceLastChunk

\* controller.enqueue accepts a chunk only while the readable side is
\* readable; otherwise it throws.
CanEnqueue(s) == readable[s] = "readable"

\* The headers are committed with the first chunk flushed to the sink.
RelayForward(s) ==
    /\ relayState' = [relayState EXCEPT ![s] =
                        IF @ = "NOT_STARTED" THEN "STREAMING" ELSE @]
    /\ httpStatus' = [httpStatus EXCEPT ![s] = IF @ = 0 THEN 200 ELSE @]
    /\ UNCHANGED <<jsonBodies, failedIn, upstreamOpen, sinkOpen>>

\* Variant: one timestamp shared by every transform instance (lastChunkTime
\* declared outside the function of line 5).
StampShared(s, t) == [x \in Sessions |-> t]

\* The timestamps written by line 21.
Stamp(s, t) == [lastChunkTime EXCEPT ![s] = t]

\* Variant: a chunk that went through the delay is enqueued twice.
EnqueueTwice(s, c) ==
    IF CanEnqueue(s)
    THEN /\ out' = [out EXCEPT ![s] =
                      LET r == [kind |-> c.kind, arr |-> c.arr, emit |-> rt]
                      IN  IF c.delay > 0 THEN Append(Append(@, r), r)
                                         ELSE Append(@, r)]
         /\ lastChunkTime' = Stamp(s, DateNow)
         /\ pc' = [pc EXCEPT ![s] = "idle"]
         /\ RelayForward(s)
    ELSE /\ pc' = [pc EXCEPT ![s] = "errored"]
         /\ UNCHANGED <<out, lastChunkTime, relayVars>>

\* transform.ts:20-21.  c is the chunk with its arrival time.
Enqueue(s, c) ==
    IF CanEnqueue(s)
    THEN /\ out' = [out EXCEPT ![s] =
                      Append(@, [kind |-> c.kind, arr |-> c.arr,
                                 emit |-> rt])]
         /\ lastChunkTime' = Stamp(s, DateNow)
         /\ pc' = [pc EXCEPT ![s] = "idle"]
         /\ RelayForward(s)
    ELSE \* enqueue throws: transform() rejects, line 21 is not reached
         /\ pc' = [pc EXCEPT ![s] = "errored"]
         /\ UNCHANGED <<out, lastChunkTime, relayVars>>

\* transform.ts:10-22, up to the await of line 17 when there is one.
transform(s, kind) ==
    LET now == DateNow
        timeSinceLastChunk == now - lastChunkTime[s]
        c == [kind |-> kind, arr |-> rt, delay |-> 0, wakeAt |-> 0]
    IN  /\ input' = [input EXCEPT ![s] = Append(@, kind)]
        /\ IF ShouldDelay(kind, timeSinceLastChunk)
           THEN /\ pc' = [pc EXCEPT ![s] = "waiting"]
                /\ pending' = [pending EXCEPT ![s] =
                      [c EXCEPT !.delay = Delay(timeSinceLastChunk),
                                !.wakeAt = rt + Delay(timeSinceLastChunk)]]
                /\ UNCHANGED <<out, lastChunkTime, relayVars>>
           ELSE /\ pending' = pending
                /\ Enqueue(s, c)

\* The upstream yields a chunk; the relay writes it to the transform.  The
\* writable side hands transform() one chunk at a time.
UpstreamChunk(s) ==
    /\ relayState[s] \in Live
    /\ pc[s] = "idle"
    /\ ~closeRequested[s]
    /\ Len(input[s]) < MaxLen
    /\ \E kind \in UpstreamKinds : transform(s, kind)
    /\ UNCHANGED <<clockVars, readable, closeRequested, completions, appVars>>

\* transform.ts:17-21: the timer of line 17 fires and transform() resumes.
TimerFire(s) ==
    /\ pc[s] = "waiting"
    /\ rt >= pending[s].wakeAt
    /\ Enqueue(s, pending[s])
    /\ pending' = [pending EXCEPT ![s] = NoChunk]
    /\ UNCHANGED <<clockVars, input, readable, closeRequested, completions,
                   appVars>>

\* The upstream sequence ends: the relay closes the writable side.  The close
\* is queued behind a transform() still suspended in its delay.
UpstreamEnd(s) ==
    /\ relayState[s] \in Live
    /\ ~closeRequested[s]
    /\ closeRequested' = [closeRequested EXCEPT ![s] = TRUE]
    /\ UNCHANGED <<clockVars, pc, lastChunkTime, pending, input, out,
                   readable, completions, relayVars, appVars>>

\* Variant: flush() does not wait for the transform() in flight.
FlushReadyEarly(s) == closeRequested[s] /\ pc[s] \in {"idle", "waiting"}

\* flush() runs once every chunk written before the close went through
\* transform().
FlushReady(s) == closeRequested[s] /\ pc[s] = "idle"

\* Closing the readable side signals completion downstream, unless it is
\* closed already: st is <<state, completions>>.
CloseReadable(st) ==
    IF st[1] = "readable" THEN <<"closed", st[2] + 1>> ELSE st

\* Variant: only the downstream sink is closed.
ReleaseSinkOnly(s) ==
    /\ sinkOpen' = [sinkOpen EXCEPT ![s] = FALSE]
    /\ UNCHANGED upstreamOpen

\* Release of the two scoped resources of a session.
Release(s) ==
    /\ upstreamOpen' = [upstreamOpen EXCEPT ![s] = FALSE]
    /\ sinkOpen' = [sinkOpen EXCEPT ![s] = FALSE]

\* transform.ts:24-27: controller.terminate() closes the readable side; the
\* stream then closes it again when the promise of flush() settles.
flush(s) ==
    LET terminated == CloseReadable(<<readable[s], completions[s]>>)
        closed == CloseReadable(terminated)
    IN  /\ readable' = [readable EXCEPT ![s] = closed[1]]
        /\ completions' = [completions EXCEPT ![s] = closed[2]]
        /\ pc' = [pc EXCEPT ![s] = "flushed"]

\* Normal completion of a session.
Flush(s) ==
    /\ relayState[s] \in Live
    /\ FlushReady(s)
    /\ flush(s)
    /\ relayState' = [relayState EXCEPT ![s] = "ENDED"]
    /\ httpStatus' = [httpStatus EXCEPT ![s] = IF @ = 0 THEN 200 ELSE @]
    /\ Release(s)
    /\ UNCHANGED <<clockVars, lastChunkTime, pending, input, out,
                   closeRequested, jsonBodies, failedIn, appVars>>

\* The downstream consumer cancels or disconnects: the readable side is
\* closed at once.  Nothing in transform.ts listens (stopStream of line 5 is
\* never used), so a timer of line 17 stays armed.
Cancel(s) ==
    /\ relayState[s] \in Live
    /\ readable' = [readable EXCEPT ![s] = "closed"]
    /\ relayState' = [relayState EXCEPT ![s] = "ABORTED"]
    /\ Release(s)
    /\ UNCHANGED <<clockVars, pc, lastChunkTime, pending, input, out,
                   closeRequested, completions, httpStatus, jsonBodies,
                   failedIn, appVars>>

\* Variant: the failure before the first flush opens an event stream (status
\* 200) that carries the error.
FailBeforeFlushInBand(s, code) ==
    /\ httpStatus' = [httpStatus EXCEPT ![s] = 200]
    /\ jsonBodies' = jsonBodies
    /\ readable' = [readable EXCEPT ![s] = "closed"]
    /\ out' = [out EXCEPT ![s] =
                  Append(@, [kind |-> "error", arr |-> rt, emit |-> rt])]
    /\ input' = [input EXCEPT ![s] = Append(@, "error")]
    /\ UNCHANGED <<pc, lastChunkTime, completions, closeRequested>>

\* The upstream fails before any chunk was flushed: an HTTP error status
\* with one JSON error body, and no event stream.
FailBeforeFlush(s, code) ==
    /\ httpStatus' = [httpStatus EXCEPT ![s] = code]
    /\ jsonBodies' = [jsonBodies EXCEPT ![s] = @ + 1]
    /\ readable' = [readable EXCEPT ![s] = "errored"]
    /\ UNCHANGED <<pc, lastChunkTime, input, out, completions,
                   closeRequested>>

\* Variant: the error event is written, and the stream is left open.
FailMidStreamOpen(s) ==
    LET c == [kind |-> "error", arr |-> rt, emit |-> rt]
    IN  /\ input' = [input EXCEPT ![s] = Append(@, "error")]
        /\ out' = [out EXCEPT ![s] = Append(@, c)]
        /\ lastChunkTime' = Stamp(s, DateNow)
        /\ UNCHANGED <<closeRequested, readable, completions, pc,
                       httpStatus, jsonBodies>>

\* The upstream fails after a flush: one error event goes through the
\* transform (not a text chunk, so never delayed), then the stream is closed.
FailMidStream(s) ==
    LET c == [kind |-> "error", arr |-> rt, emit |-> rt]
        closed == CloseReadable(<<readable[s], completions[s]>>)
    IN  /\ input' = [input EXCEPT ![s] = Append(@, "error")]
        /\ out' = [out EXCEPT ![s] = Append(@, c)]
        /\ lastChunkTime' = Stamp(s, DateNow)
        /\ closeRequested' = [closeRequested EXCEPT ![s] = TRUE]
        /\ readable' = [readable EXCEPT ![s] = closed[1]]
        /\ completions' = [completions EXCEPT ![s] = closed[2]]
        /\ pc' = [pc EXCEPT ![s] = "flushed"]
        /\ UNCHANGED <<httpStatus, jsonBodies>>

UpstreamError(s) ==
    /\ relayState[s] \in Live
    /\ pc[s] = "idle"
    /\ ~closeRequested[s]
    /\ failedIn' = [failedIn EXCEPT ![s] = relayState[s]]
    /\ relayState' = [relayState EXCEPT ![s] = "ERRORED"]
    /\ Release(s)
    /\ IF relayState[s] = "NOT_STARTED"
       THEN \E code \in ErrorStatus : FailBeforeFlush(s, code)
       ELSE FailMidStream(s)
    /\ UNCHANGED <<clockVars, pending, appVars>>

-----------------------------------------------------------------------------

\* One session carries traffic; the other one exists and stays idle.
Next ==
    \/ Tick
    \/ ClockAdjust
    \/ \E s \in Primary : UpstreamChunk(s)
    \/ \E s \in Primary : TimerFire(s)
    \/ \E s \in Primary : UpstreamEnd(s)
    \/ \E s \in Primary : Flush(s)
    \/ \E s \in Primary : Cancel(s)
    \/ \E s \in Primary : UpstreamError(s)

Spec == Init /\ [][Next]_vars

\* Both sessions carry traffic, their chunks and timers interleaved in any
\* order.
NextSessions ==
    \/ Tick
    \/ ClockAdjust
    \/ \E s \in Sessions : UpstreamChunk(s)
    \/ \E s \in Sessions : TimerFire(s)

SpecSessions == Init /\ [][NextSessions]_vars

TypeOK ==
    /\ rt \in 0..MaxTime
    /\ off \in Offsets
    /\ \A s \in Sessions :
        /\ pc[s] \in {"idle", "waiting", "flushed", "errored"}
        /\ readable[s] \in {"readable", "closed", "errored"}
        /\ relayState[s] \in Live \cup Terminal
        /\ Len(input[s]) <= MaxLen + 1

-----------------------------------------------------------------------------
(* Provider configurations: src/lib/providers.ts and the route of           *)
(* src/unnamed/part_001.  A row is [id, userId, provider, apiKey]; the       *)
(* createdAt and updatedAt columns carry no decision and are left out.       *)

Users == {"u1", "u2"}

\* providers.ts:6
ProviderTypes == {"openrouter", "deepinfra"}

ApiKeys == {"k1", "k2"}

\* Calls of saveProviderConfig in a run.
MaxIds == 3

Reply(op, user, provider, key, status, owners, saved) ==
    [op |-> op, user |-> user, provider |-> provider, key |-> key,
     status |-> status, owners |-> owners, saved |-> saved]

\* drizzle eq(column, value): a condition object.
eq(col, val) == <<[col |-> col, val |-> val]>>

\* drizzle and(a, b): both conditions.
and(a, b) == a \o b

\* JavaScript a && b on two condition objects: an object is truthy, so the
\* value is b.
JsAnd(a, b) == b

\* A row satisfies a where clause.
Matches(row, where) ==
    \A i \in 1..Len(where) : row[where[i].col] = where[i].val

\* providers.ts:15-17 and 57-59
WhereUserProvider(userId, provider) ==
    JsAnd(eq("userId", userId), eq("provider", provider))

\* providers.ts:8-21.  limit(1) without an order: any matching row.
getProviderConfig(userId, provider) ==
    LET result == {r \in providerConfig :
                      Matches(r, WhereUserProvider(userId, provider))}
    IN  /\ IF result = {}
           THEN reply' = Reply("get", userId, provider, Undefined, 0, {},
                               FALSE)
           ELSE \E r \in result :
                  reply' = Reply("get", userId, provider, r.apiKey, 0,
                                 {r.userId}, FALSE)
        /\ UNCHANGED providerVars

\* Variant: a plain insert, without the onConflictDoUpdate clause.
InsertOnly(rows, row) == rows \cup {row}

\* providers.ts:30-45: insert, or on a conflict on (userId, provider) set the
\* apiKey of the row that is there.
Upsert(rows, row) ==
    LET conflict == {r \in rows : r.userId = row.userId
                                  /\ r.provider = row.provider}
    IN  IF conflict = {}
        THEN rows \cup {row}
        ELSE (rows \ conflict)
             \cup {[r EXCEPT !.apiKey = row.apiKey] : r \in conflict}

\* providers.ts:23-49
saveProviderConfig(userId, provider, apiKey) ==
    /\ nextId' = nextId + 1
    /\ providerConfig' =
          Upsert(providerConfig,
                 [id |-> nextId + 1, userId |-> userId,
                  provider |-> provider, apiKey |-> apiKey])

\* providers.ts:51-60
deleteProviderConfig(userId, provider) ==
    LET gone == {r \in providerConfig :
                    Matches(r, WhereUserProvider(userId, provider))}
    IN  /\ providerConfig' = providerConfig \ gone
        /\ reply' = Reply("delete", userId, provider, Undefined, 0,
                          {r.userId : r \in gone}, FALSE)
        /\ UNCHANGED nextId

GetProviderConfig ==
    /\ \E userId \in Users : \E provider \in ProviderTypes :
          getProviderConfig(userId, provider)
    /\ UNCHANGED <<streamVars, chat, fsVars, uiVars>>

SaveProviderConfig ==
    /\ nextId < MaxIds
    /\ \E userId \in Users : \E provider \in ProviderTypes :
       \E apiKey \in ApiKeys :
          /\ saveProviderConfig(userId, provider, apiKey)
          /\ reply' = Reply("save", userId, provider, apiKey, 0, {}, TRUE)
    /\ UNCHANGED <<streamVars, chat, fsVars, uiVars>>

DeleteProviderConfig ==
    /\ \E userId \in Users : \E provider \in ProviderTypes :
          deleteProviderConfig(userId, provider)
    /\ UNCHANGED <<streamVars, chat, fsVars, uiVars>>

\* Request bodies of the route: a body that is not JSON, or an object whose
\* provider and apiKey may be missing ("") or anything else.
Bodies ==
    {[json |-> FALSE, provider |-> "", apiKey |-> ""]}
    \cup [json : {TRUE}, provider : ProviderTypes \cup {"", "openai"},
          apiKey : ApiKeys \cup {""}]

\* Variant: the provider is not validated.
PostStatusAnyProvider(session, body) ==
    IF session = NoUser THEN 401
    ELSE IF ~body.json THEN 500
    ELSE IF body.provider = "" \/ body.apiKey = "" THEN 400
    ELSE 200

\* part_001:8-29 and 37-42: the status of the answer, 200 when the handler
\* reaches the save.
PostStatus(session, body) ==
    IF session = NoUser THEN 401
    ELSE IF ~body.json THEN 500
    ELSE IF body.provider = "" \/ body.apiKey = "" THEN 400
    ELSE IF body.provider # "openrouter" /\ body.provider # "deepinfra"
         THEN 400
    ELSE 200

\* part_001:6-44
ProviderConfigPOST ==
    /\ \E session \in Users \cup {NoUser} : \E body \in Bodies :
          LET status == PostStatus(session, body)
          IN  /\ reply' = Reply("post", session, body.provider, body.apiKey,
                                status, {}, status = 200)
              /\ IF status = 200
                 THEN /\ nextId < MaxIds
                      /\ saveProviderConfig(session, body.provider,
                                            body.apiKey)
                 ELSE UNCHANGED providerVars
    /\ UNCHANGED <<streamVars, chat, fsVars, uiVars>>

NextProviders ==
    \/ GetProviderConfig
    \/ SaveProviderConfig
    \/ DeleteProviderConfig
    \/ ProviderConfigPOST

SpecProviders == Init /\ [][NextProviders]_vars

-----------------------------------------------------------------------------
(* Language model selection: src/lib/ai/providers.ts *)

\* process.env.OPENROUTER_API_KEY: unset, empty, or a key.
EnvKeys == {Undefined, "", "k0"}

\* Model ids: a plain one, one with the -thinking suffix, one that contains
\* "reasoning".
ModelIds == {"chat-model", "chat-model-thinking", "chat-model-reasoning"}

\* providers.ts:62-63
isReasoningModel(modelId) ==
    modelId \in {"chat-model-thinking", "chat-model-reasoning"}

\* providers.ts:66: modelId.replace(/-thinking$/, "")
gatewayModelId(modelId) ==
    IF modelId = "chat-model-thinking" THEN "chat-model" ELSE modelId

\* The stored key of the user for the provider, null when there is none.
getProviderApiKey(userId, provider) ==
    LET result == {r \in providerConfig :
                      Matches(r, and(eq("userId", userId),
                                     eq("provider", provider)))}
    IN  IF result = {} THEN Null
        ELSE (CHOOSE r \in result : TRUE).apiKey

Falsy(v) == v \in {Null, Undefined, ""}

\* Variant: the environment key is preferred to the user's key.
PickKeyEnvFirst(apiKey, DEFAULT_API_KEY) ==
    IF Falsy(DEFAULT_API_KEY) THEN apiKey ELSE DEFAULT_API_KEY

\* providers.ts:39: apiKey || DEFAULT_API_KEY
PickKey(apiKey, DEFAULT_API_KEY) ==
    IF Falsy(apiKey) THEN DEFAULT_API_KEY ELSE apiKey

ModelReply(userId, provider, modelId, isTest, env, result, key, model, wrapped, lookedUp) ==
    [op |-> "getLanguageModel", user |-> userId, provider |-> provider,
     modelId |-> modelId, isTestEnvironment |-> isTest, env |-> env,
     result |-> result, key |-> key, model |-> model, wrapped |-> wrapped,
     lookedUp |-> lookedUp]

\* providers.ts:38-75
getLanguageModel(modelId, userId, provider, isTestEnvironment, DEFAULT_API_KEY) ==
    IF isTestEnvironment
    THEN reply' = ModelReply(userId, provider, modelId, TRUE,
                             DEFAULT_API_KEY, "mock", Undefined, modelId,
                             FALSE, FALSE)
    ELSE LET apiKey == getProviderApiKey(userId, provider)
             key == PickKey(apiKey, DEFAULT_API_KEY)
         IN  IF Falsy(key)
             THEN reply' = ModelReply(userId, provider, modelId, FALSE,
                                      DEFAULT_API_KEY,
                                      "OpenRouter API key is missing",
                                      Undefined, Undefined, FALSE, TRUE)
             ELSE reply' = ModelReply(userId, provider, modelId, FALSE,
                                      DEFAULT_API_KEY, "client", key,
                                      gatewayModelId(modelId),
                                      isReasoningModel(modelId), TRUE)

GetLanguageModel ==
    /\ \E modelId \in ModelIds : \E userId \in Users :
       \E provider \in ProviderTypes : \E isTestEnvironment \in BOOLEAN :
       \E DEFAULT_API_KEY \in EnvKeys :
          getLanguageModel(modelId, userId, provider, isTestEnvironment,
                           DEFAULT_API_KEY)
    /\ UNCHANGED <<streamVars, providerVars, chat, fsVars, uiVars>>

NextModels ==
    \/ SaveProviderConfig
    \/ GetLanguageModel

SpecModels == Init /\ [][NextModels]_vars

-----------------------------------------------------------------------------
(* Chat settings route: src/app/(chat)/api/chat/[id]/settings/route.ts *)

\* Chat ids a request may name; "c9" names no chat.
ChatIds == {"c1", "c2", "c9"}

Models == {"m1", "m2"}

\* A JSON value that is not a string (a number): it has no trim method.
NotAString == "<number>"

\* Values of a text field in a request body.
FieldValues == {Undefined, "", " 0.7 ", "0.7", NotAString}

\* String.prototype.trim on the strings of FieldValues.
Trim(v) == IF v = " 0.7 " THEN "0.7" ELSE v

\* route.ts:48-55: x?.trim() || null
TrimOrNull(v) ==
    IF v = Undefined THEN Null
    ELSE IF Trim(v) = "" THEN Null
    ELSE Trim(v)

\* The fields a request body sets: one of these, or every field at once.
VariedFields == {"systemInstruction", "temperature", "all"}

\* Request bodies: not JSON, or an object with a model and the eight text
\* fields, where one field, or every field, carries a value.
SettingsBodies ==
    {[json |-> FALSE, model |-> Undefined,
      fields |-> [f \in SettingFields |-> Undefined]]}
    \cup {[json |-> TRUE, model |-> m,
           fields |-> [g \in SettingFields |->
                         IF f = "all" \/ g = f THEN v ELSE Undefined]] :
            m \in Models \cup {Undefined},
            f \in VariedFields,
            v \in FieldValues}

SettingsReply(op, user, id, json, status, disclosed) ==
    [op |-> op, user |-> user, id |-> id, json |-> json, status |-> status,
     disclosed |-> disclosed]

\* Variant: the chat is looked up by id alone.
WhereOwnChatAnyUser(id, userId) == eq("id", id)

\* route.ts:36 and 99
WhereOwnChat(id, userId) == and(eq("id", id), eq("userId", userId))

\* route.ts:44-57: set() skips a column whose value is undefined.
UpdateSettings(row, body) ==
    [row EXCEPT !.model = IF body.model = Undefined THEN @ ELSE body.model,
                !.fields = [f \in SettingFields |->
                              TrimOrNull(body.fields[f])]]

\* route.ts:12-41, 63-69: the status of the response.
SettingsStatus(session, id, body) ==
    LET existingChat == {r \in chat : Matches(r, WhereOwnChat(id, session))}
        throws == \E f \in SettingFields : body.fields[f] = NotAString
    IN  IF session = NoUser THEN 401
        ELSE IF ~body.json THEN 500
        ELSE IF existingChat = {} THEN 404
        ELSE IF throws THEN 500
        ELSE 200

\* route.ts:44-57: the table after the request.
SettingsStored(session, id, body) ==
    IF SettingsStatus(session, id, body) = 200
    THEN {IF Matches(r, eq("id", id)) THEN UpdateSettings(r, body) ELSE r :
          r \in chat}
    ELSE chat

\* route.ts:7-70
SettingsPOST ==
    /\ \E session \in Users \cup {NoUser} : \E id \in ChatIds :
       \E body \in SettingsBodies :
          /\ reply' = SettingsReply("settingsPOST", session, id, body.json,
                                    SettingsStatus(session, id, body), {})
          /\ chat' = SettingsStored(session, id, body)
    /\ UNCHANGED <<streamVars, providerVars, fsVars, uiVars>>

\* route.ts:72-114
SettingsGET ==
    /\ \E session \in Users \cup {NoUser} : \E id \in ChatIds :
          LET chats == {r \in chat : Matches(r, WhereOwnChat(id, session))}
          IN  IF session = NoUser
              THEN reply' = SettingsReply("settingsGET", session, id, TRUE,
                                          401, {})
              ELSE IF chats = {}
              THEN reply' = SettingsReply("settingsGET", session, id, TRUE,
                                          404, {})
              ELSE \E r \in chats :
                      reply' = SettingsReply("settingsGET", session, id,
                                             TRUE, 200,
                                             {[model |-> r.model,
                                               fields |-> r.fields]})
    /\ UNCHANGED <<streamVars, providerVars, chat, fsVars, uiVars>>

NextSettings ==
    \/ SettingsPOST
    \/ SettingsGET

SpecSettings == Init /\ [][NextSettings]_vars

-----------------------------------------------------------------------------
(* Chat page and settings modal: src/app/(chat)/chat/[id]/page.tsx,
   src/components/chat-header.tsx, src/components/chat-settings-modal.tsx *)

\* auth() returned null.
NoSession == "no-session"

\* Who asks for the page: a user, a session without a user, no session.
Visitors == Users \cup {NoUser, NoSession}

\* chatModels[0].id
DefaultModel == "m1"

\* chat-settings-modal.tsx:57, 71
DefaultTemperature == "0.7"

\* page.tsx:57-61: the settings the page hands to the modal.
PassedFields == {"systemInstruction", "temperature"}

\* x || undefined
OrUndefined(v) == IF v = Null \/ v = "" THEN Undefined ELSE v

\* page.tsx:57-61
chatSettings(row) ==
    [model |-> OrUndefined(row.model),
     fields |-> [f \in SettingFields |->
                   IF f \in PassedFields THEN OrUndefined(row.fields[f])
                   ELSE Undefined]]

\* Variant: a private chat is shown to every session user.
MayViewAnyUser(visitor, row) ==
    row.visibility = "private" => visitor # NoUser

\* page.tsx:35-43
MayView(visitor, row) ==
    row.visibility = "private" => (visitor # NoUser /\ visitor = row.userId)

\* page.tsx:21-77: what the page gives a visitor who asks for chat id.
Render(rows, visitor, id) ==
    IF ~\E r \in rows : r.id = id
    THEN [NoPage EXCEPT !.outcome = "redirect:/", !.id = id,
                        !.visitor = visitor]
    ELSE IF visitor = NoSession
    THEN [NoPage EXCEPT !.outcome = "redirect:/api/auth/guest", !.id = id,
                        !.visitor = visitor]
    ELSE LET row == CHOOSE r \in rows : r.id = id
         IN  IF ~MayView(visitor, row)
             THEN [NoPage EXCEPT !.outcome = "notFound", !.id = id,
                                 !.visitor = visitor]
             ELSE [outcome |-> "render", id |-> id, visitor |-> visitor,
                   isReadonly |-> visitor # row.userId,
                   initialSettings |-> chatSettings(row)]

UiReply(op) == [op |-> op]

\* A visitor loads the page of a chat.
ChatPage ==
    /\ \E visitor \in Visitors : \E id \in ChatIds :
          page' = Render(chat, visitor, id)
    /\ form' = ClosedForm
    /\ reply' = UiReply("chatPage")
    /\ UNCHANGED <<streamVars, providerVars, chat, fsVars>>

\* chat-settings-modal.tsx:67-79: the fields the modal shows when it opens.
FormFrom(currentSettings) ==
    [open |-> TRUE,
     model |-> IF currentSettings.model = Undefined THEN DefaultModel
               ELSE currentSettings.model,
     fields |-> [f \in SettingFields |->
                   IF currentSettings.fields[f] # Undefined
                   THEN currentSettings.fields[f]
                   ELSE IF f = "temperature" THEN DefaultTemperature
                   ELSE ""]]

\* chat-header.tsx:57-74: the settings button, shown to the owner.
ModalOpen ==
    /\ page.outcome = "render"
    /\ ~page.isReadonly
    /\ ~form.open
    /\ form' = FormFrom(page.initialSettings)
    /\ reply' = UiReply("modalOpen")
    /\ UNCHANGED <<streamVars, providerVars, chat, fsVars, page>>

\* The fields the user edits, and what is typed into them.
EditedFields == {"systemInstruction", "temperature", "maxTokens"}
Typed == {"", " 0.7 "}

\* The user changes the model or one field of the open modal.
ModalEdit ==
    /\ form.open
    /\ \/ \E m \in Models : form' = [form EXCEPT !.model = m]
       \/ \E f \in EditedFields : \E v \in Typed :
             form' = [form EXCEPT !.fields[f] = v]
    /\ reply' = UiReply("modalEdit")
    /\ UNCHANGED <<streamVars, providerVars, chat, fsVars, page>>

\* chat-settings-modal.tsx:81-116: handleSave posts the nine fields and, when
\* the response is ok, closes the modal and reloads the page.
ModalSave ==
    /\ form.open
    /\ LET body == [json |-> TRUE, model |-> form.model,
                    fields |-> form.fields]
           status == SettingsStatus(page.visitor, page.id, body)
       IN  /\ chat' = SettingsStored(page.visitor, page.id, body)
           /\ reply' = SettingsReply("modalSave", page.visitor, page.id,
                                     TRUE, status, {})
           /\ IF status = 200
              THEN /\ page' = Render(chat', page.visitor, page.id)
                   /\ form' = ClosedForm
              ELSE UNCHANGED <<page, form>>
    /\ UNCHANGED <<streamVars, providerVars, fsVars>>

NextPage ==
    \/ ChatPage
    \/ ModalOpen
    \/ ModalEdit
    \/ ModalSave

SpecPage == Init /\ [][NextPage]_vars

-----------------------------------------------------------------------------
(* MCP filesystem tool server: src/mcp/filesystem/index.js *)

\* Longest file, in lines, and longest updates array the model explores.
MaxLines == 3
MaxUpdates == 2

\* Strings are single characters, so a line is a character or empty and
\* an occurrence of old_string in the content is a line equal to it.
Lines == {"", "a", "x"}

Contents == UNION {[1..k -> Lines] : k \in 1..MaxLines}

\* Elements of the updates array; a missing optional field is a missing
\* record field.
ReplaceOp(old_string, new_string) ==
    [type |-> "replace", old_string |-> old_string, new_string |-> new_string]

ReplaceNoOld(new_string) == [type |-> "replace", new_string |-> new_string]

RegexOp(pattern, new_string) ==
    [type |-> "regex", pattern |-> pattern, new_string |-> new_string]

RegexNoPattern(new_string) == [type |-> "regex", new_string |-> new_string]

AppendOp(new_string) == [type |-> "append", new_string |-> new_string]

PrependOp(new_string) == [type |-> "prepend", new_string |-> new_string]

LineOp(line_number, new_string) ==
    [type |-> "line", line_number |-> line_number, new_string |-> new_string]

LineNoNumber(new_string) == [type |-> "line", new_string |-> new_string]

InsertOp(line_number, new_string) ==
    [type |-> "insert", line_number |-> line_number,
     new_string |-> new_string]

InsertNoNumber(new_string) == [type |-> "insert", new_string |-> new_string]

UpdateOps ==
    {ReplaceOp("a", "x"), ReplaceNoOld("x"), RegexOp("a", "x"),
     RegexNoPattern("x"), AppendOp("x"), PrependOp("x"), LineNoNumber("x"),
     InsertNoNumber("x")}
    \cup {LineOp(n, "x") : n \in 1..MaxLines}
    \cup {InsertOp(n, "x") : n \in 0..MaxLines}

UpdateLists == UNION {[1..k -> UpdateOps] : k \in 0..MaxUpdates}

\* index.js:433-438
IsTextOp(u) == u.type \in {"replace", "regex", "append", "prepend"}
IsLineOp(u) == u.type \in {"line", "insert"}

HasLineNumber(u) == "line_number" \in DOMAIN u

\* String.prototype.replace(old, new), first occurrence (index.js:504-508,
\* 557)
ReplaceFirst(content, old, new) ==
    IF \E i \in 1..Len(content) : content[i] = old
    THEN LET i == CHOOSE k \in 1..Len(content) :
                     /\ content[k] = old
                     /\ \A j \in 1..(k - 1) : content[j] # old
         IN  [content EXCEPT ![i] = new]
    ELSE content

\* content.endsWith("\n")
EndsWithNewline(content) ==
    Len(content) >= 2 /\ content[Len(content)] = ""

Threw == [threw |-> TRUE, content |-> NoFile]
Done(content) == [threw |-> FALSE, content |-> content]

\* One iteration of the loops of index.js:460-589 and 600-665.
ApplyOne(content, u) ==
    CASE u.type = "replace" ->
            IF "old_string" \notin DOMAIN u \/ u.old_string = ""
            THEN Threw
            ELSE Done(ReplaceFirst(content, u.old_string, u.new_string))
      [] u.type = "regex" ->
            IF "pattern" \notin DOMAIN u \/ u.pattern = ""
            THEN Threw
            ELSE Done(ReplaceFirst(content, u.pattern, u.new_string))
      [] u.type = "append" ->
            IF EndsWithNewline(content)
            THEN Done(SubSeq(content, 1, Len(content) - 1)
                         \o <<u.new_string>>)
            ELSE Done(content \o <<u.new_string>>)
      [] u.type = "prepend" -> Done(<<u.new_string>> \o content)
      [] u.type = "line" ->
            IF ~HasLineNumber(u) THEN Threw
            ELSE IF u.line_number > 0 /\ u.line_number <= Len(content)
            THEN Done([content EXCEPT ![u.line_number] = u.new_string])
            ELSE Done(content)
      [] u.type = "insert" ->
            IF ~HasLineNumber(u) THEN Threw
            ELSE IF u.line_number >= 0 /\ u.line_number <= Len(content)
            THEN Done(SubSeq(content, 1, u.line_number)
                         \o <<u.new_string>>
                         \o SubSeq(content, u.line_number + 1, Len(content)))
            ELSE Done(content)

RECURSIVE ApplyAll(_, _)
ApplyAll(result, ops) ==
    IF ops = <<>> \/ result.threw THEN result
    ELSE ApplyAll(ApplyOne(result.content, Head(ops)), Tail(ops))

\* index.js:594-598: the comparator puts a before b when it is negative;
\* a missing line_number counts as Infinity.
Greater(a, b) ==
    IF HasLineNumber(a)
    THEN HasLineNumber(b) /\ a.line_number > b.line_number
    ELSE HasLineNumber(b)

RECURSIVE InsertDescending(_, _)
InsertDescending(sorted, u) ==
    IF sorted = <<>> THEN <<u>>
    ELSE IF Greater(u, Head(sorted)) THEN <<u>> \o sorted
    ELSE <<Head(sorted)>> \o InsertDescending(Tail(sorted), u)

\* Array.prototype.sort is stable.
RECURSIVE SortDescending(_)
SortDescending(ops) ==
    IF ops = <<>> THEN <<>>
    ELSE InsertDescending(SortDescending(SubSeq(ops, 1, Len(ops) - 1)),
                          ops[Len(ops)])

\* The updates applied one after the other, as given.
ApplyInOrder(content, updates) == ApplyAll(Done(content), updates)

\* index.js:433-665: the text operations, then the line operations from the
\* bottom of the file to the top.
applyUpdates(content, updates) ==
    LET textOps == SelectSeq(updates, IsTextOp)
        lineOps == SelectSeq(updates, IsLineOp)
        sortedLineOps == SortDescending(lineOps)
    IN  ApplyAll(ApplyAll(Done(content), textOps), sortedLineOps)

\* The outcome of the update loops on one content and one updates array.
UpdatesReply(content, updates) ==
    [op |-> "applyUpdates", content |-> content, updates |-> updates,
     result |-> applyUpdates(content, updates)]

ApplyUpdates ==
    /\ reply = NoReply
    /\ \E content \in Contents : \E updates \in UpdateLists :
          reply' = UpdatesReply(content, updates)
    /\ UNCHANGED <<streamVars, providerVars, chat, fsVars, uiVars>>

SpecUpdates == Init /\ [][ApplyUpdates]_vars

\* The updates arrays of the update_file calls.
FsUpdateLists ==
    {<<>>,
     <<AppendOp("x")>>,
     <<LineOp(1, "x")>>,
     <<ReplaceOp("a", "x"), InsertOp(0, "x")>>,
     <<PrependOp("x"), ReplaceNoOld("x")>>,
     <<AppendOp("x"), LineNoNumber("x")>>}

\* The contents write_file is called with: "a" and "a\n".
WriteContents == {<<"a">>, <<"a", "">>}

FsReply(op, file_path, isError, dry_run, append, content, done) ==
    [op |-> op, file_path |-> file_path, isError |-> isError,
     dry_run |-> dry_run, append |-> append, content |-> content,
     done |-> done]

\* The result of an update_file call; raises tells whether the updates array
\* holds an operation that raises an error.
UpdateReply(file_path, isError, dry_run, content, done, raises) ==
    [op |-> "update_file", file_path |-> file_path, isError |-> isError,
     dry_run |-> dry_run, append |-> FALSE, content |-> content,
     done |-> done, raises |-> raises]

\* index.js:465-467, 548-550, 605-607, 633-635: the operation throws.
Raises(u) == ApplyOne(<<"">>, u).threw

\* Variant: a failed read marks the file as read too.
ReadMarksAlways(fileExists) == TRUE

\* index.js:193-197: markAsRead is reached when fs.readFile has succeeded.
ReadMarks(fileExists) == fileExists

\* Variant: an error raised by an operation does not stop the call.
AbortsNever(r) == FALSE

\* index.js:730-740: an error raised in the loops ends the call.
Aborts(r) == r.threw

\* Variant: every path passes the last-read check.
isLastReadFileAlways(filePath) == TRUE

\* index.js:127-129
isLastReadFile(filePath) == lastReadFile = filePath

\* Variant: a dry run writes too.
ShouldWriteAlways(dry_run) == TRUE

\* index.js:700
ShouldWrite(dry_run) == ~dry_run

\* Variant: the backup is taken from the updated content.
BackupOfNewContent(originalContent, content) == content

\* index.js:703
BackupContent(originalContent, content) == originalContent

\* Variant: an existing file is accepted when append is set.
WriteBlockedUnlessAppend(fileExists, append) == fileExists /\ ~append

\* index.js:797
WriteBlocked(fileExists, append) == fileExists

\* fs.appendFile: the data follows the last character of the file.
appendFile(old, data) ==
    IF old = NoFile THEN data
    ELSE SubSeq(old, 1, Len(old) - 1)
            \o <<old[Len(old)] \o Head(data)>>
            \o Tail(data)

\* index.js:190-251
ReadFile ==
    /\ fsPc = "idle"
    /\ \E file_path \in Paths :
          /\ reply' = FsReply("read_file", file_path, FALSE, FALSE, FALSE,
                              files[file_path], TRUE)
          /\ lastReadFile' = IF ReadMarks(files[file_path] # NoFile)
                             THEN file_path
                             ELSE lastReadFile
    /\ UNCHANGED <<streamVars, providerVars, chat, files, fsPc, call, uiVars>>

\* index.js:371-705, 714-741: the call up to the backup; a call that is
\* rejected, throws or is a dry run returns here.
UpdateFile ==
    /\ fsPc = "idle"
    /\ \E file_path \in Paths : \E updates \in FsUpdateLists :
       \E create_backup \in BOOLEAN : \E dry_run \in BOOLEAN :
          LET fileExists == files[file_path] # NoFile
              originalContent == IF fileExists THEN files[file_path]
                                 ELSE <<"">>
              r == applyUpdates(originalContent, updates)
              raises == \E i \in 1..Len(updates) : Raises(updates[i])
          IN  IF ~isLastReadFile(file_path) \/ Aborts(r)
              THEN /\ reply' = UpdateReply(file_path, TRUE, dry_run, NoFile,
                                          TRUE, raises)
                   /\ UNCHANGED fsVars
              ELSE IF ~ShouldWrite(dry_run)
              THEN /\ reply' = UpdateReply(file_path, FALSE, dry_run,
                                          r.content, TRUE, raises)
                   /\ UNCHANGED fsVars
              ELSE /\ Len(r.content) <= MaxLines
                   /\ files' = IF create_backup /\ fileExists
                               THEN [files EXCEPT ![Bak(file_path)] =
                                       BackupContent(originalContent,
                                                     r.content)]
                               ELSE files
                   /\ call' = [file_path |-> file_path,
                               content |-> r.content,
                               originalContent |-> originalContent,
                               create_backup |-> create_backup,
                               fileExists |-> fileExists,
                               dry_run |-> dry_run]
                   /\ fsPc' = "write"
                   /\ reply' = UpdateReply(file_path, FALSE, dry_run, NoFile,
                                          FALSE, raises)
                   /\ UNCHANGED lastReadFile
    /\ UNCHANGED <<streamVars, providerVars, chat, uiVars>>

\* index.js:708-729: the file is written and marked as read.
UpdateFileWrite ==
    /\ fsPc = "write"
    /\ files' = [files EXCEPT ![call.file_path] = call.content]
    /\ lastReadFile' = call.file_path
    /\ fsPc' = "idle"
    /\ call' = NoCall
    /\ reply' = UpdateReply(call.file_path, FALSE, call.dry_run, NoFile,
                            TRUE, FALSE)
    /\ UNCHANGED <<streamVars, providerVars, chat, uiVars>>

\* index.js:783-882
WriteFile ==
    /\ fsPc = "idle"
    /\ \E file_path \in Paths : \E content \in WriteContents :
       \E append \in BOOLEAN :
          LET fileExists == files[file_path] # NoFile
              written == IF append
                         THEN appendFile(files[file_path], content)
                         ELSE content
          IN  IF WriteBlocked(fileExists, append)
              THEN /\ reply' = FsReply("write_file", file_path, TRUE, FALSE,
                                       append, content, TRUE)
                   /\ UNCHANGED files
              ELSE /\ Len(written) <= MaxLines
                   /\ files' = [files EXCEPT ![file_path] = written]
                   /\ reply' = FsReply("write_file", file_path, FALSE, FALSE,
                                       append, content, TRUE)
    /\ UNCHANGED <<streamVars, providerVars, chat, lastReadFile, fsPc, call,
                   uiVars>>

\* index.js:958-1108: the listing runs tree or find and changes nothing.
ListDirectory ==
    /\ fsPc = "idle"
    /\ reply' = FsReply("list_directory", ".", FALSE, FALSE, FALSE, NoFile,
                        TRUE)
    /\ UNCHANGED <<streamVars, providerVars, chat, fsVars, uiVars>>

NextFs ==
    \/ ReadFile
    \/ UpdateFile
    \/ UpdateFileWrite
    \/ WriteFile
    \/ ListDirectory

SpecFs == Init /\ [][NextFs]_vars

-----------------------------------------------------------------------------
(* Properties *)

OutKinds(s) == [i \in 1..Len(out[s]) |-> out[s][i].kind]

IsPrefix(a, b) == Len(a) <= Len(b) /\ \A i \in 1..Len(a) : a[i] = b[i]

\* A chunk went through the delay of line 17.
Delayed(c) == c.emit > c.arr

\* C1: the chunks enqueued downstream are the chunks fed to transform(), in
\* the same order, none dropped, merged or duplicated: the output is always a
\* prefix of the input, it lacks exactly the chunk suspended in its delay, and
\* it is the whole input whenever transform() is idle or the stream flushed.
C1_OutputIsInput ==
    \A s \in Sessions :
        /\ IsPrefix(OutKinds(s), input[s])
        /\ pc[s] \in {"idle", "flushed"} => OutKinds(s) = input[s]
        /\ pc[s] = "waiting" =>
              /\ Len(out[s]) + 1 = Len(input[s])
              /\ pending[s].kind = input[s][Len(input[s])]

\* A stream of MaxLen chunks with a delayed one ran to its normal end.
C1_Witness ==
    \E s \in Sessions :
        /\ relayState[s] = "ENDED"
        /\ Len(out[s]) = MaxLen
        /\ \E i \in 1..Len(out[s]) : Delayed(out[s][i])

\* C2: two consecutive text chunks that arrive less than MIN_DELAY_MS apart
\* are emitted at least MIN_DELAY_MS apart (and in arrival order: out keeps
\* the order of transform() calls).
C2_TextSpacing ==
    \A s \in Sessions : \A i \in 1..(Len(out[s]) - 1) :
        ( /\ out[s][i].kind = "text"
          /\ out[s][i + 1].kind = "text"
          /\ out[s][i + 1].arr - out[s][i].arr < MIN_DELAY_MS )
        => out[s][i + 1].emit - out[s][i].emit >= MIN_DELAY_MS

\* C3: once the downstream consumer has cancelled, no transform() is still
\* suspended in its delay (the pending delay was abandoned at the cancel).
C3_DelayAbandoned ==
    \A s \in Sessions : relayState[s] = "ABORTED" => pc[s] # "waiting"

\* C4: the delay requested for a text chunk is at most MIN_DELAY_MS.
C4_DelayBounded ==
    \A s \in Sessions :
        pc[s] = "waiting" => pending[s].delay <= MIN_DELAY_MS

\* C5: a chunk that is not a text chunk is never suspended, and is enqueued at
\* the time it arrived.
C5_NonTextImmediate ==
    \A s \in Sessions :
        /\ pc[s] = "waiting" => pending[s].kind = "text"
        /\ \A i \in 1..Len(out[s]) :
              out[s][i].kind # "text" => out[s][i].emit = out[s][i].arr

\* A non-text chunk was emitted less than MIN_DELAY_MS after the previous
\* emission.
C5_Witness ==
    \E s \in Sessions : \E i \in 2..Len(out[s]) :
        /\ out[s][i].kind = "tool-call"
        /\ out[s][i].emit - out[s][i - 1].emit < MIN_DELAY_MS

\* C6: completion is signalled downstream at most once, and only when the
\* upstream has ended and every chunk fed to transform() has been emitted;
\* once flush() has run it has been signalled.
C6_CompletionOnce ==
    \A s \in Sessions :
        /\ completions[s] <= 1
        /\ pc[s] = "flushed" => completions[s] = 1
        /\ completions[s] = 1 =>
              /\ closeRequested[s]
              /\ pc[s] = "flushed"
              /\ OutKinds(s) = input[s]

\* A stream whose last chunk went through the delay has completed.
C6_Witness ==
    \E s \in Sessions :
        /\ completions[s] = 1
        /\ relayState[s] = "ENDED"
        /\ Len(out[s]) >= 2
        /\ Delayed(out[s][Len(out[s])])

\* C7: pacing state is session-local.  The timestamp of a session changes
\* only when that session emits a chunk, and then to the clock reading of that
\* emission; the delay of a chunk is computed from the timestamp of its own
\* session; a step that delays or emits a chunk of one session leaves the
\* output and the pending chunk of every other session alone.
C7_SessionLocal ==
    [][\A s \in Sessions :
          /\ lastChunkTime'[s] # lastChunkTime[s] =>
                /\ Len(out'[s]) = Len(out[s]) + 1
                /\ lastChunkTime'[s] = DateNow
          /\ (pc[s] = "idle" /\ pc'[s] = "waiting") =>
                pending'[s].delay = MIN_DELAY_MS - (DateNow - lastChunkTime[s])
          /\ input'[s] # input[s] \/ out'[s] # out[s] =>
                \A t \in Sessions \ {s} :
                    /\ out'[t] = out[t]
                    /\ pending'[t] = pending[t]
                    /\ lastChunkTime'[t] = lastChunkTime[t]]_vars

\* Both sessions have emitted chunks, one has a chunk in its delay, and their
\* timestamps differ.
C7_Witness ==
    \E s \in Sessions : \E t \in Sessions \ {s} :
        /\ pc[s] = "waiting"
        /\ Len(out[t]) >= 2
        /\ lastChunkTime[s] # lastChunkTime[t]
        /\ lastChunkTime[s] # 0

\* C8: an upstream failure in NOT_STARTED gives the client a non-200 HTTP
\* status, one JSON error body and no SSE event.
C8_FailBeforeFlush ==
    \A s \in Sessions :
        failedIn[s] = "NOT_STARTED" =>
            /\ httpStatus[s] \in ErrorStatus
            /\ httpStatus[s] # 200
            /\ jsonBodies[s] = 1
            /\ out[s] = <<>>

C8_Witness ==
    \E s \in Sessions :
        failedIn[s] = "NOT_STARTED" /\ relayState[s] = "ERRORED"

\* C9: an upstream failure in STREAMING adds exactly one event, the error
\* event, as the last event of the stream; the connection is then closed and
\* the HTTP status is still 200.
C9_FailMidStream ==
    \A s \in Sessions :
        failedIn[s] = "STREAMING" =>
            /\ httpStatus[s] = 200
            /\ Len(out[s]) >= 2
            /\ OutKinds(s) = input[s]
            /\ \A i \in 1..Len(out[s]) :
                  out[s][i].kind = "error" <=> i = Len(out[s])
            /\ readable[s] = "closed"
            /\ pc[s] = "flushed"
            /\ ~sinkOpen[s]

C9_Witness ==
    \E s \in Sessions :
        /\ failedIn[s] = "STREAMING"
        /\ Len(out[s]) = MaxLen + 1

\* C10: a session that has ended, by normal completion, upstream error or
\* downstream disconnect, holds neither its upstream subscription nor its
\* downstream sink; a live session holds both.
C10_Released ==
    \A s \in Sessions :
        /\ relayState[s] \in Terminal => ~upstreamOpen[s] /\ ~sinkOpen[s]
        /\ relayState[s] \in Live => upstreamOpen[s] /\ sinkOpen[s]

\* A session was disconnected while a chunk was in its delay, and the timer
\* has since fired.
C10_Witness ==
    \E s \in Sessions :
        /\ relayState[s] = "ABORTED"
        /\ pc[s] = "errored"
        /\ ~upstreamOpen[s]

\* C11: getProviderConfig(userId, provider) returns only a key stored by that
\* userId, and deleteProviderConfig(userId, provider) removes only rows of
\* that userId.
C11_UserIsolation ==
    /\ (reply.op = "get" /\ reply.key # Undefined) =>
          reply.owners = {reply.user}
    /\ reply.op = "delete" => reply.owners \subseteq {reply.user}

\* The rows of a (userId, provider) pair.
RowsOf(rows, userId, provider) ==
    {r \in rows : r.userId = userId /\ r.provider = provider}

\* C19: there is at most one row per (userId, provider) pair; a save leaves
\* exactly one row for its pair, holding the apiKey of that save, and leaves
\* the rows of every other pair as they were; no other operation changes the
\* apiKey of a row or adds one.
C19_OneRowPerPair ==
    /\ [](\A r1 \in providerConfig : \A r2 \in providerConfig :
             (r1.userId = r2.userId /\ r1.provider = r2.provider) => r1 = r2)
    /\ [][IF nextId' # nextId
          THEN LET mine == RowsOf(providerConfig', reply'.user,
                                  reply'.provider)
               IN  /\ Cardinality(mine) = 1
                   /\ \A r \in mine : r.apiKey = reply'.key
                   /\ providerConfig' \ mine =
                         providerConfig
                         \ RowsOf(providerConfig, reply'.user,
                                  reply'.provider)
          ELSE providerConfig' \subseteq providerConfig]_vars

\* A save replaced the key of a row that was there, next to a row of another
\* pair.
C19_Witness ==
    /\ reply.op = "save"
    /\ \E r \in providerConfig :
          /\ r.userId = reply.user
          /\ r.provider = reply.provider
          /\ r.id < nextId
          /\ r.apiKey = reply.key
    /\ Cardinality(providerConfig) >= 2

OwnerOf(rows, id) ==
    IF \E r \in rows : r.id = id
    THEN (CHOOSE r \in rows : r.id = id).userId
    ELSE NoUser

C13_NotLastReadRejected ==
    [][(reply'.op = "update_file" /\ fsPc = "idle"
           /\ reply'.file_path # lastReadFile)
          => /\ reply'.isError
             /\ reply'.done
             /\ files' = files
             /\ lastReadFile' = lastReadFile]_vars

\* update_file was refused for an existing file while another file was the
\* last one read.
C13_Witness ==
    /\ reply.op = "update_file"
    /\ reply.isError
    /\ reply.file_path # lastReadFile
    /\ files[reply.file_path] # NoFile
    /\ lastReadFile # NoPath

\* C14: the content update_file computes is the content obtained by
\* applying the updates one after the other in the order of the array.
C14_AppliedInOrder ==
    reply.op = "applyUpdates"
       => reply.result = ApplyInOrder(reply.content, reply.updates)

C16_AppendToExisting ==
    [][(reply'.op = "write_file" /\ reply'.append
           /\ files[reply'.file_path] # NoFile)
          => /\ ~reply'.isError
             /\ files'[reply'.file_path] =
                   appendFile(files[reply'.file_path], reply'.content)]_vars

\* C17: an update_file call with dry_run = true changes no file, no .bak and
\* not the tracker, whatever its updates.
C17_DryRunChangesNothing ==
    [][(reply'.op = "update_file" /\ reply'.dry_run)
          => /\ files' = files
             /\ lastReadFile' = lastReadFile
             /\ fsPc' = "idle"]_vars

\* A dry run passed the last-read check and previewed a content different
\* from the file's.
C17_Witness ==
    /\ reply.op = "update_file"
    /\ reply.dry_run
    /\ ~reply.isError
    /\ reply.content # NoFile
    /\ reply.content # files[reply.file_path]

\* C18: while a call with create_backup on an existing file is about to
\* write the file, the .bak already holds the content the file had when the
\* call began and the file still holds it; that content is what the call read
\* from the file, and the .bak still holds it when the call returns.
C18_BackupBeforeWrite ==
    /\ [](fsPc = "write" /\ call.create_backup /\ call.fileExists
            => /\ files[Bak(call.file_path)] = call.originalContent
               /\ files[call.file_path] = call.originalContent)
    /\ [][(fsPc = "idle" /\ fsPc' = "write" /\ call'.fileExists)
             => call'.originalContent = files[call'.file_path]]_vars
    /\ [][(fsPc = "write" /\ fsPc' = "idle" /\ call.create_backup
              /\ call.fileExists)
             => /\ files'[Bak(call.file_path)] = call.originalContent
                /\ files'[call.file_path] = call.content
                /\ ~reply'.isError]_vars

\* An update with a backup returned, and the .bak differs from the updated
\* file.
C18_Witness ==
    /\ reply.op = "update_file"
    /\ reply.done
    /\ ~reply.isError
    /\ ~reply.dry_run
    /\ files[Bak(reply.file_path)] # NoFile
    /\ files[Bak(reply.file_path)] # files[reply.file_path]

\* The stored row of the chat a page is about.
RowOf(rows, id) == CHOOSE r \in rows : r.id = id

\* C21 as stated: a private chat is rendered to its owner only and every
\* other visitor gets notFound; a rendered chat is read-only exactly for a
\* visitor who is not its owner.
C21_PrivateOwnerOnlyElseNotFound ==
    (page.outcome # "none" /\ \E r \in chat : r.id = page.id)
       => LET row == RowOf(chat, page.id)
          IN  /\ (row.visibility = "private" /\ page.visitor # row.userId)
                    => page.outcome = "notFound"
              /\ page.outcome = "render"
                    => page.isReadonly = (page.visitor # row.userId)

\* C21 (amended): a private chat is rendered to its owner only; any other
\* visitor with a session gets notFound and a visitor without a session is
\* redirected to /api/auth/guest; a rendered chat is read-only exactly for a
\* visitor who is not its owner.
C21_PrivateOwnerOnly ==
    (page.outcome # "none" /\ \E r \in chat : r.id = page.id)
       => LET row == RowOf(chat, page.id)
          IN  /\ (row.visibility = "private" /\ page.outcome = "render")
                    => page.visitor = row.userId
              /\ (row.visibility = "private" /\ page.visitor # row.userId)
                    => page.outcome = IF page.visitor = NoSession
                                      THEN "redirect:/api/auth/guest"
                                      ELSE "notFound"
              /\ page.outcome = "render"
                    => page.isReadonly = (page.visitor # row.userId)

\* A user asked for another user's private chat and got notFound.
C21_Witness ==
    /\ page.outcome = "notFound"
    /\ page.visitor \in Users
    /\ \E r \in chat :
          r.id = page.id /\ r.visibility = "private"
             /\ r.userId # page.visitor

\* C22: after a save from the modal and the reload, the modal shows for
\* every one of the nine fields the value that is stored, so that saving
\* what it shows stores the same values again.
C22_SaveReloadRoundTrip ==
    [][(reply'.op = "modalSave" /\ reply'.status = 200)
          => LET row == RowOf(chat', reply'.id)
                 shown == FormFrom(page'.initialSettings)
             IN  /\ shown.model = row.model
                 /\ \A f \in SettingFields :
                       TrimOrNull(shown.fields[f]) = row.fields[f]]_vars

\* C26: the timestamp is written when a chunk of any kind is forwarded; a
\* text chunk that arrives less than MIN_DELAY_MS after a chunk of another
\* kind was emitted is emitted no sooner than MIN_DELAY_MS after that
\* emission; the first chunk of a stream is emitted when it arrives.
C26_StampAfterEveryChunk ==
    /\ [][\A s \in Sessions :
             Len(out'[s]) > Len(out[s]) => lastChunkTime'[s] = DateNow]_vars
    /\ [](\A s \in Sessions :
             /\ \A i \in 1..(Len(out[s]) - 1) :
                   ( /\ out[s][i].kind # "text"
                     /\ out[s][i + 1].kind = "text"
                     /\ out[s][i + 1].arr - out[s][i].emit < MIN_DELAY_MS )
                   => out[s][i + 1].emit - out[s][i].emit >= MIN_DELAY_MS
             /\ Len(out[s]) >= 1 => out[s][1].emit = out[s][1].arr)

\* The keys stored for a user and a provider.
StoredKeys(userId, provider) ==
    {r.apiKey : r \in {x \in providerConfig :
                          x.userId = userId /\ x.provider = provider}}

C24_TrackerFrame ==
    /\ [](reply.op = "none" => lastReadFile = NoPath)
    /\ [][LET r == reply'
              read == r.op = "read_file" /\ files[r.file_path] # NoFile
              updated == /\ r.op = "update_file"
                         /\ fsPc = "write"
                         /\ r.done /\ ~r.isError /\ ~r.dry_run
          IN  /\ lastReadFile' # lastReadFile => read \/ updated
              /\ read \/ updated => lastReadFile' = r.file_path
              /\ ( /\ reply.op = "write_file" /\ ~reply.isError
                   /\ r.op = "update_file"
                   /\ r.file_path = reply.file_path )
                 => r.isError /\ files' = files]_vars

\* update_file was rejected for file "b", which write_file created, while
\* "a" was the last file read.
C24_Witness ==
    /\ reply.op = "update_file"
    /\ reply.isError
    /\ reply.file_path = "b"
    /\ files["b"] # NoFile
    /\ lastReadFile = "a"
    /\ ~reply.raises

====
